---- MODULE Spec2Model ----
(***************************************************************************)
(* Model of examples/provisioning/wifi_prov_mgr/main/app_main.c:           *)
(* the main task (app_main -> init_esp -> init_prov -> heartbeat loop),    *)
(* the event-loop task running event_handler, and the protocomm endpoint   *)
(* callback custom_prov_data_handler.  SDK calls are environment steps     *)
(* whose return codes are chosen nondeterministically.                     *)
(***************************************************************************)
EXTENDS Integers, Sequences, FiniteSets, TLC

VARIABLES
    pc,              \* statement the main task executes next
    abortSite,       \* "" or the call whose ESP_ERROR_CHECK failed (abort())
    mainCalls,       \* <<fn, rc>> of every SDK call made by the main task before the loop
    registered,      \* <<event_base, event_id>> pairs event_handler is registered for
    mgrInitialised,  \* wifi_prov_mgr_init done and wifi_prov_mgr_deinit not called since
    eth_mac,         \* eth_mac[6] of get_device_service_name
    service_name,    \* service_name[16] of init_prov, up to and including the NUL
    lastEvent,       \* last event handed to the event loop
    handlerRan,      \* whether event_handler was invoked for lastEvent
    lastResult,      \* what event_handler did for lastEvent
    led_state,       \* static uint8_t led_state
    i,               \* loop variable of the for loop
    gpioTrace,       \* the last TraceWindow calls gpio_set_level(pin, level)
    firstLevel,      \* level of the first gpio_set_level call, -1 before it
    setsSinceBeat,   \* gpio_set_level calls since the last heartbeat log line
    beat,            \* parity of the number of heartbeat log lines
    ep               \* last invocation of custom_prov_data_handler

vars == <<pc, abortSite, mainCalls, registered, mgrInitialised, eth_mac,
          service_name, lastEvent, handlerRan, lastResult, led_state, i,
          gpioTrace, firstLevel, setsSinceBeat, beat, ep>>

mainVars == <<pc, mainCalls, registered, eth_mac, service_name>>
blinkVars == <<led_state, i, gpioTrace, firstLevel, setsSinceBeat, beat>>
eventVars == <<lastEvent, handlerRan, lastResult>>

----------------------------------------------------------------------------
(* Bounds of the model *)
TraceWindow == 3
MaxInLen == 2
MaxSessionId == 1

----------------------------------------------------------------------------
(* esp_err_t values the SDK calls return *)
ESP_OK == "ESP_OK"
ESP_FAIL == "ESP_FAIL"
ESP_ERR_NO_MEM == "ESP_ERR_NO_MEM"
IGNORED == "IGNORED"    \* a return value the model does not look at
ESP_ERR_NOT_FOUND == "ESP_ERR_NOT_FOUND"
ESP_ERR_NVS_NO_FREE_PAGES == "ESP_ERR_NVS_NO_FREE_PAGES"
ESP_ERR_NVS_NEW_VERSION_FOUND == "ESP_ERR_NVS_NEW_VERSION_FOUND"

RetCodes == {ESP_OK, ESP_FAIL}
NvsInitRetCodes == {ESP_OK, ESP_ERR_NVS_NO_FREE_PAGES, ESP_ERR_NVS_NEW_VERSION_FOUND,
                    ESP_ERR_NOT_FOUND}

(* Event bases and ids *)
WIFI_PROV_EVENT == "WIFI_PROV_EVENT"
WIFI_EVENT == "WIFI_EVENT"
IP_EVENT == "IP_EVENT"
PROTOCOMM_TRANSPORT_BLE_EVENT == "PROTOCOMM_TRANSPORT_BLE_EVENT"
PROTOCOMM_SECURITY_SESSION_EVENT == "PROTOCOMM_SECURITY_SESSION_EVENT"
ETH_EVENT == "ETH_EVENT"
ESP_EVENT_ANY_ID == "ESP_EVENT_ANY_ID"

EventBases == {WIFI_PROV_EVENT, WIFI_EVENT, IP_EVENT, PROTOCOMM_TRANSPORT_BLE_EVENT,
               PROTOCOMM_SECURITY_SESSION_EVENT, ETH_EVENT}

EventIds(event_base) ==
    CASE event_base = WIFI_PROV_EVENT ->
            {"WIFI_PROV_INIT", "WIFI_PROV_START", "WIFI_PROV_CRED_RECV", "WIFI_PROV_CRED_FAIL",
             "WIFI_PROV_CRED_SUCCESS", "WIFI_PROV_END"}
      [] event_base = WIFI_EVENT ->
            {"WIFI_EVENT_STA_START", "WIFI_EVENT_STA_DISCONNECTED", "WIFI_EVENT_SCAN_DONE",
             "WIFI_EVENT_STA_CONNECTED"}
      [] event_base = IP_EVENT -> {"IP_EVENT_STA_GOT_IP", "IP_EVENT_STA_LOST_IP"}
      [] event_base = PROTOCOMM_TRANSPORT_BLE_EVENT ->
            {"PROTOCOMM_TRANSPORT_BLE_CONNECTED", "PROTOCOMM_TRANSPORT_BLE_DISCONNECTED"}
      [] event_base = PROTOCOMM_SECURITY_SESSION_EVENT ->
            {"PROTOCOMM_SECURITY_SESSION_SETUP_OK",
             "PROTOCOMM_SECURITY_SESSION_INVALID_SECURITY_PARAMS",
             "PROTOCOMM_SECURITY_SESSION_CREDENTIALS_MISMATCH"}
      [] OTHER -> {"ETHERNET_EVENT_START"}

Events == {ev \in EventBases \X UNION {EventIds(b) : b \in EventBases} : ev[2] \in EventIds(ev[1])}

----------------------------------------------------------------------------
(* ESP_ERROR_CHECK(fn()): record the call; abort unless it returned ESP_OK *)
ErrorCheck(fn, rc, next) ==
    /\ mainCalls' = Append(mainCalls, <<fn, rc>>)
    /\ IF rc = ESP_OK
         THEN pc' = next /\ abortSite' = abortSite
         ELSE pc' = pc /\ abortSite' = fn

(* A call whose return value is discarded *)
Unchecked(fn, rc, next) ==
    /\ mainCalls' = Append(mainCalls, <<fn, rc>>)
    /\ pc' = next
    /\ abortSite' = abortSite

Running == abortSite = ""

Called(fn) == \E k \in 1..Len(mainCalls) : mainCalls[k][1] = fn
CallCount(fn) == Cardinality({k \in 1..Len(mainCalls) : mainCalls[k][1] = fn})
CallIndex(fn) == CHOOSE k \in 1..Len(mainCalls) : mainCalls[k][1] = fn
Returned(fn, rc) == \E k \in 1..Len(mainCalls) : mainCalls[k] = <<fn, rc>>

----------------------------------------------------------------------------
(* init_esp *)

NvsFlashInit ==
    /\ Running /\ pc = "nvs_flash_init"
    /\ \E ret \in NvsInitRetCodes :
          Unchecked("nvs_flash_init", ret,
                    IF ret = ESP_ERR_NVS_NO_FREE_PAGES \/ ret = ESP_ERR_NVS_NEW_VERSION_FOUND
                      THEN "nvs_flash_erase" ELSE "esp_netif_init")
    /\ UNCHANGED <<registered, mgrInitialised, eth_mac, service_name, eventVars, blinkVars, ep>>

NvsFlashErase ==
    /\ Running /\ pc = "nvs_flash_erase"
    /\ \E rc \in RetCodes : ErrorCheck("nvs_flash_erase", rc, "nvs_flash_init_retry")
    /\ UNCHANGED <<registered, mgrInitialised, eth_mac, service_name, eventVars, blinkVars, ep>>

NvsFlashInitRetry ==
    /\ Running /\ pc = "nvs_flash_init_retry"
    /\ \E rc \in NvsInitRetCodes : ErrorCheck("nvs_flash_init", rc, "esp_netif_init")
    /\ UNCHANGED <<registered, mgrInitialised, eth_mac, service_name, eventVars, blinkVars, ep>>

EspNetifInit ==
    /\ Running /\ pc = "esp_netif_init"
    /\ \E rc \in RetCodes : ErrorCheck("esp_netif_init", rc, "esp_event_loop_create_default")
    /\ UNCHANGED <<registered, mgrInitialised, eth_mac, service_name, eventVars, blinkVars, ep>>

EspEventLoopCreateDefault ==
    /\ Running /\ pc = "esp_event_loop_create_default"
    /\ \E rc \in RetCodes :
          ErrorCheck("esp_event_loop_create_default", rc, "esp_event_handler_register")
    /\ UNCHANGED <<registered, mgrInitialised, eth_mac, service_name, eventVars, blinkVars, ep>>

(* The esp_event_handler_register calls of init_esp, in order *)
RegistrationsWithoutIp ==
    << <<WIFI_PROV_EVENT, ESP_EVENT_ANY_ID>>,
       <<PROTOCOMM_TRANSPORT_BLE_EVENT, ESP_EVENT_ANY_ID>>,
       <<PROTOCOMM_SECURITY_SESSION_EVENT, ESP_EVENT_ANY_ID>>,
       <<WIFI_EVENT, ESP_EVENT_ANY_ID>> >>

RegistrationsWithoutProv ==
    << <<PROTOCOMM_TRANSPORT_BLE_EVENT, ESP_EVENT_ANY_ID>>,
       <<PROTOCOMM_SECURITY_SESSION_EVENT, ESP_EVENT_ANY_ID>>,
       <<WIFI_EVENT, ESP_EVENT_ANY_ID>>,
       <<IP_EVENT, "IP_EVENT_STA_GOT_IP">> >>

Registrations ==
    << <<WIFI_PROV_EVENT, ESP_EVENT_ANY_ID>>,
       <<PROTOCOMM_TRANSPORT_BLE_EVENT, ESP_EVENT_ANY_ID>>,
       <<PROTOCOMM_SECURITY_SESSION_EVENT, ESP_EVENT_ANY_ID>>,
       <<WIFI_EVENT, ESP_EVENT_ANY_ID>>,
       <<IP_EVENT, "IP_EVENT_STA_GOT_IP">> >>

EspEventHandlerRegister ==
    /\ Running /\ pc = "esp_event_handler_register"
    /\ LET n == CallCount("esp_event_handler_register") + 1
       IN \E rc \in RetCodes :
             /\ ErrorCheck("esp_event_handler_register", rc,
                           IF n = Len(Registrations) THEN "esp_wifi_init"
                                                     ELSE "esp_event_handler_register")
             /\ registered' = IF rc = ESP_OK THEN registered \cup {Registrations[n]}
                                             ELSE registered
    /\ UNCHANGED <<mgrInitialised, eth_mac, service_name, eventVars, blinkVars, ep>>

EspWifiInit ==
    /\ Running /\ pc = "esp_wifi_init"
    /\ \E rc \in RetCodes : ErrorCheck("esp_wifi_init", rc, "wifi_prov_mgr_init")
    /\ UNCHANGED <<registered, mgrInitialised, eth_mac, service_name, eventVars, blinkVars, ep>>

----------------------------------------------------------------------------
(* get_device_service_name *)

NUL == "NUL"
HexDigits == <<"0", "1", "2", "3", "4", "5", "6", "7", "8", "9", "A", "B", "C", "D", "E", "F">>
ssid_prefix == <<"K", "a", "i", "v", "a", "c", "_">>

Min(a, b) == IF a < b THEN a ELSE b

RECURSIVE ToHexUpper(_)
(* %X : upper-case hexadecimal digits of v, no padding *)
ToHexUpper(v) ==
    IF v < 16 THEN <<HexDigits[v + 1]>>
              ELSE ToHexUpper(v \div 16) \o <<HexDigits[(v % 16) + 1]>>

RECURSIVE ZeroPad(_, _)
(* the 0<width> flag: pad on the left with '0' up to the field width, never cut *)
ZeroPad(digits, width) ==
    IF Len(digits) >= width THEN digits ELSE ZeroPad(<<"0">> \o digits, width)

Fmt02X(v) == ZeroPad(ToHexUpper(v), 2)

(* snprintf(buf, max, ...): at most max-1 characters of the output, then NUL *)
snprintf(max, formatted) ==
    IF max = 0 THEN <<>>
    ELSE SubSeq(formatted, 1, Min(Len(formatted), max - 1)) \o <<NUL>>

get_device_service_name_shifted(mac, max) ==
    snprintf(max, ssid_prefix \o Fmt02X(mac[2]) \o <<"_">> \o Fmt02X(mac[3])
                              \o <<"_">> \o Fmt02X(mac[4]))

get_device_service_name(mac, max) ==
    snprintf(max, ssid_prefix \o Fmt02X(mac[3]) \o <<"_">> \o Fmt02X(mac[4])
                              \o <<"_">> \o Fmt02X(mac[5]))

(* char service_name[16] *)
ServiceNameSize == 16

(* Station MAC addresses the model draws from: bytes 0..2 equal, bytes 3..5 *)
(* from a few patterns covering 00, FF, a padded digit and letter digits    *)
OuiBytes == {0, 255}
MacTails == {<<0, 0, 0>>, <<255, 255, 255>>, <<10, 0, 171>>, <<171, 10, 0>>,
             <<0, 171, 10>>, <<9, 16, 254>>}
MacAddrs == {[k \in 0..5 |-> IF k < 3 THEN oui ELSE tail[k - 2]] :
                oui \in OuiBytes, tail \in MacTails}
NoMac == [k \in 0..5 |-> 0]

----------------------------------------------------------------------------
(* init_prov *)

WifiProvMgrInit ==
    /\ Running /\ pc = "wifi_prov_mgr_init"
    /\ \E rc \in RetCodes :
          /\ ErrorCheck("wifi_prov_mgr_init", rc, "get_device_service_name")
          /\ mgrInitialised' = (rc = ESP_OK)
    /\ UNCHANGED <<registered, eth_mac, service_name, eventVars, blinkVars, ep>>

(* esp_wifi_get_mac cannot fail here: esp_wifi_init has returned ESP_OK and *)
(* both arguments are valid, so eth_mac holds the station MAC.              *)
GetDeviceServiceName ==
    /\ Running /\ pc = "get_device_service_name"
    /\ \E mac \in MacAddrs :
          /\ eth_mac' = mac
          /\ service_name' = get_device_service_name(mac, ServiceNameSize)
    /\ Unchecked("esp_wifi_get_mac", ESP_OK, "wifi_prov_scheme_ble_set_service_uuid")
    /\ UNCHANGED <<registered, mgrInitialised, eventVars, blinkVars, ep>>

WifiProvSchemeBleSetServiceUuid ==
    /\ Running /\ pc = "wifi_prov_scheme_ble_set_service_uuid"
    /\ \E rc \in RetCodes :
          ErrorCheck("wifi_prov_scheme_ble_set_service_uuid", rc, "wifi_prov_mgr_endpoint_create")
    /\ UNCHANGED <<registered, mgrInitialised, eth_mac, service_name, eventVars, blinkVars, ep>>

WifiProvMgrEndpointCreate ==
    /\ Running /\ pc = "wifi_prov_mgr_endpoint_create"
    /\ \E rc \in RetCodes :
          ErrorCheck("wifi_prov_mgr_endpoint_create", rc, "wifi_prov_mgr_disable_auto_stop")
    /\ UNCHANGED <<registered, mgrInitialised, eth_mac, service_name, eventVars, blinkVars, ep>>

WifiProvMgrDisableAutoStop ==
    /\ Running /\ pc = "wifi_prov_mgr_disable_auto_stop"
    /\ \E rc \in RetCodes :
          ErrorCheck("wifi_prov_mgr_disable_auto_stop", rc, "wifi_prov_mgr_start_provisioning")
    /\ UNCHANGED <<registered, mgrInitialised, eth_mac, service_name, eventVars, blinkVars, ep>>

WifiProvMgrStartProvisioning ==
    /\ Running /\ pc = "wifi_prov_mgr_start_provisioning"
    /\ \E rc \in RetCodes :
          ErrorCheck("wifi_prov_mgr_start_provisioning", rc, "wifi_prov_mgr_endpoint_register")
    /\ UNCHANGED <<registered, mgrInitialised, eth_mac, service_name, eventVars, blinkVars, ep>>

WifiProvMgrEndpointRegisterChecked ==
    /\ Running /\ pc = "wifi_prov_mgr_endpoint_register"
    /\ \E rc \in RetCodes : ErrorCheck("wifi_prov_mgr_endpoint_register", rc, "gpio_reset_pin")
    /\ UNCHANGED <<registered, mgrInitialised, eth_mac, service_name, eventVars, blinkVars, ep>>

(* Last statement of init_prov: the return value is discarded; service_name *)
(* goes out of scope when init_prov returns.                                *)
WifiProvMgrEndpointRegister ==
    /\ Running /\ pc = "wifi_prov_mgr_endpoint_register"
    /\ \E rc \in RetCodes : Unchecked("wifi_prov_mgr_endpoint_register", rc, "gpio_reset_pin")
    /\ eth_mac' = NoMac
    /\ service_name' = <<>>
    /\ UNCHANGED <<registered, mgrInitialised, eventVars, blinkVars, ep>>

----------------------------------------------------------------------------
(* app_main after init_esp() and init_prov() *)

app_heartbeat_delay_ms == 5000
led_delay_ms == 1000
led_gpio == 5
interval == app_heartbeat_delay_ms \div led_delay_ms

(* C's ! on the uint8_t led_state *)
LogicalNotStuck(x) == x

LogicalNot(x) == IF x = 0 THEN 1 ELSE 0

(* keep the last TraceWindow entries *)
Window(s) == IF Len(s) > TraceWindow THEN SubSeq(s, Len(s) - TraceWindow + 1, Len(s)) ELSE s

(* gpio_reset_pin(led_gpio); gpio_set_direction(led_gpio, GPIO_MODE_OUTPUT); *)
GpioSetup ==
    /\ Running /\ pc = "gpio_reset_pin"
    /\ mainCalls' = mainCalls \o << <<"gpio_reset_pin", IGNORED>>,
                                    <<"gpio_set_direction", IGNORED>> >>
    /\ pc' = "heartbeat"
    /\ UNCHANGED <<abortSite, registered, mgrInitialised, eth_mac, service_name,
                   eventVars, blinkVars, ep>>

(* while (1) { ESP_LOGI(... App Heartbeat ...); for (int i = 0; ... *)
HeartbeatLog ==
    /\ Running /\ pc = "heartbeat"
    /\ beat' = 1 - beat
    /\ setsSinceBeat' = 0
    /\ i' = 0
    /\ pc' = "for"
    /\ UNCHANGED <<abortSite, mainCalls, registered, mgrInitialised, eth_mac, service_name,
                   eventVars, led_state, gpioTrace, firstLevel, ep>>

(* i < interval: gpio_set_level; led_state = !led_state; vTaskDelay; i++ *)
LedStep ==
    /\ Running /\ pc = "for" /\ i < interval
    /\ gpioTrace' = Window(Append(gpioTrace, <<led_gpio, led_state>>))
    /\ firstLevel' = IF firstLevel = -1 THEN led_state ELSE firstLevel
    /\ setsSinceBeat' = setsSinceBeat + 1
    /\ led_state' = LogicalNot(led_state)
    /\ i' = i + 1
    /\ UNCHANGED <<pc, abortSite, mainCalls, registered, mgrInitialised, eth_mac, service_name,
                   eventVars, beat, ep>>

(* i < interval is false: back to the top of while (1) *)
ForExit ==
    /\ Running /\ pc = "for" /\ ~(i < interval)
    /\ pc' = "heartbeat"
    /\ UNCHANGED <<abortSite, mainCalls, registered, mgrInitialised, eth_mac, service_name,
                   eventVars, blinkVars, ep>>

----------------------------------------------------------------------------
(* event_handler *)

(* What one invocation of event_handler did: the if-branch taken ("" when   *)
(* none), the log levels emitted, the SDK calls made with their return      *)
(* codes, the final value of the local `provisioned`, and whether an        *)
(* ESP_ERROR_CHECK aborted.                                                 *)
Handled(branch, logs, calls) ==
    [branch |-> branch, logs |-> logs, calls |-> calls, provisioned |-> FALSE, abort |-> FALSE]

NotHandled == Handled("", <<>>, <<>>)

(* What the SDK would answer if event_handler called it *)
SdkAnswers == [is_provisioned_ret : RetCodes, is_provisioned_out : BOOLEAN,
               esp_wifi_connect_ret : RetCodes]

OnWifiProvEventDeinitOnSuccess(event_id) ==
    CASE event_id = "WIFI_PROV_START" -> Handled(WIFI_PROV_EVENT, <<"I">>, <<>>)
      [] event_id = "WIFI_PROV_CRED_RECV" -> Handled(WIFI_PROV_EVENT, <<"I">>, <<>>)
      [] event_id = "WIFI_PROV_CRED_FAIL" ->
            Handled(WIFI_PROV_EVENT, <<"E", "I">>,
                    << <<"wifi_prov_mgr_reset_sm_state_on_failure", ESP_OK>> >>)
      [] event_id = "WIFI_PROV_CRED_SUCCESS" ->
            Handled(WIFI_PROV_EVENT, <<"I">>, << <<"wifi_prov_mgr_deinit", ESP_OK>> >>)
      [] event_id = "WIFI_PROV_END" ->
            Handled(WIFI_PROV_EVENT, <<"I">>, << <<"wifi_prov_mgr_deinit", ESP_OK>> >>)
      [] OTHER -> Handled(WIFI_PROV_EVENT, <<>>, <<>>)

(* switch (event_id) under event_base == WIFI_PROV_EVENT; the return values *)
(* of the three manager calls are not looked at                             *)
OnWifiProvEvent(event_id) ==
    CASE event_id = "WIFI_PROV_START" -> Handled(WIFI_PROV_EVENT, <<"I">>, <<>>)
      [] event_id = "WIFI_PROV_CRED_RECV" -> Handled(WIFI_PROV_EVENT, <<"I">>, <<>>)
      [] event_id = "WIFI_PROV_CRED_FAIL" ->
            Handled(WIFI_PROV_EVENT, <<"E", "I">>,
                    << <<"wifi_prov_mgr_reset_sm_state_on_failure", ESP_OK>> >>)
      [] event_id = "WIFI_PROV_CRED_SUCCESS" ->
            Handled(WIFI_PROV_EVENT, <<"I">>,
                    << <<"wifi_prov_mgr_reset_sm_state_for_reprovision", ESP_OK>> >>)
      [] event_id = "WIFI_PROV_END" ->
            Handled(WIFI_PROV_EVENT, <<"I">>, << <<"wifi_prov_mgr_deinit", ESP_OK>> >>)
      [] OTHER -> Handled(WIFI_PROV_EVENT, <<>>, <<>>)

(* case WIFI_EVENT_STA_START *)
OnStaStart(sdk) ==
    LET isProv == <<"wifi_prov_mgr_is_provisioned", sdk.is_provisioned_ret>>
        connect == <<"esp_wifi_connect", sdk.esp_wifi_connect_ret>>
        provisioned == sdk.is_provisioned_out
    IN  IF sdk.is_provisioned_ret # ESP_OK
          THEN [branch |-> WIFI_EVENT, logs |-> <<"I">>, calls |-> <<isProv>>,
                provisioned |-> provisioned, abort |-> TRUE]
        ELSE IF provisioned
          THEN [branch |-> WIFI_EVENT,
                logs |-> IF sdk.esp_wifi_connect_ret = ESP_OK THEN <<"I", "I">>
                                                              ELSE <<"I", "I", "E">>,
                calls |-> <<isProv, connect>>, provisioned |-> TRUE, abort |-> FALSE]
          ELSE [branch |-> WIFI_EVENT, logs |-> <<"I">>, calls |-> <<isProv>>,
                provisioned |-> FALSE, abort |-> FALSE]

OnWifiEventReconnect(event_id, sdk) ==
    CASE event_id = "WIFI_EVENT_STA_START" -> OnStaStart(sdk)
      [] event_id = "WIFI_EVENT_STA_DISCONNECTED" ->
            Handled(WIFI_EVENT, <<"I">>, << <<"esp_wifi_connect", sdk.esp_wifi_connect_ret>> >>)
      [] event_id = "WIFI_EVENT_SCAN_DONE" -> Handled(WIFI_EVENT, <<"I">>, <<>>)
      [] OTHER -> Handled(WIFI_EVENT, <<>>, <<>>)

(* switch (event_id) under event_base == WIFI_EVENT *)
OnWifiEvent(event_id, sdk) ==
    CASE event_id = "WIFI_EVENT_STA_START" -> OnStaStart(sdk)
      [] event_id = "WIFI_EVENT_STA_DISCONNECTED" -> Handled(WIFI_EVENT, <<"I">>, <<>>)
      [] event_id = "WIFI_EVENT_SCAN_DONE" -> Handled(WIFI_EVENT, <<"I">>, <<>>)
      [] OTHER -> Handled(WIFI_EVENT, <<>>, <<>>)

OnGotIpStopProvisioning ==
    Handled(IP_EVENT, <<"I">>, << <<"wifi_prov_mgr_stop_provisioning", ESP_OK>> >>)

(* event_base == IP_EVENT && event_id == IP_EVENT_STA_GOT_IP *)
OnGotIp == Handled(IP_EVENT, <<"I">>, <<>>)

(* switch (event_id) under event_base == PROTOCOMM_TRANSPORT_BLE_EVENT *)
OnBleEvent(event_id) ==
    CASE event_id = "PROTOCOMM_TRANSPORT_BLE_CONNECTED" ->
            Handled(PROTOCOMM_TRANSPORT_BLE_EVENT, <<"I">>, <<>>)
      [] event_id = "PROTOCOMM_TRANSPORT_BLE_DISCONNECTED" ->
            Handled(PROTOCOMM_TRANSPORT_BLE_EVENT, <<"I">>, <<>>)
      [] OTHER -> Handled(PROTOCOMM_TRANSPORT_BLE_EVENT, <<>>, <<>>)

(* switch (event_id) under event_base == PROTOCOMM_SECURITY_SESSION_EVENT *)
OnSecuritySessionEvent(event_id) ==
    CASE event_id = "PROTOCOMM_SECURITY_SESSION_SETUP_OK" ->
            Handled(PROTOCOMM_SECURITY_SESSION_EVENT, <<"I">>, <<>>)
      [] event_id = "PROTOCOMM_SECURITY_SESSION_INVALID_SECURITY_PARAMS" ->
            Handled(PROTOCOMM_SECURITY_SESSION_EVENT, <<"E">>, <<>>)
      [] event_id = "PROTOCOMM_SECURITY_SESSION_CREDENTIALS_MISMATCH" ->
            Handled(PROTOCOMM_SECURITY_SESSION_EVENT, <<"E">>, <<>>)
      [] OTHER -> Handled(PROTOCOMM_SECURITY_SESSION_EVENT, <<>>, <<>>)

event_handler(event_base, event_id, sdk) ==
    IF event_base = WIFI_PROV_EVENT THEN OnWifiProvEvent(event_id)
    ELSE IF event_base = WIFI_EVENT THEN OnWifiEvent(event_id, sdk)
    ELSE IF event_base = IP_EVENT /\ event_id = "IP_EVENT_STA_GOT_IP" THEN OnGotIp
    ELSE IF event_base = PROTOCOMM_TRANSPORT_BLE_EVENT THEN OnBleEvent(event_id)
    ELSE IF event_base = PROTOCOMM_SECURITY_SESSION_EVENT THEN OnSecuritySessionEvent(event_id)
    ELSE NotHandled

(* The handler registrations of init_esp select the events the loop hands   *)
(* to event_handler.                                                        *)
IsRegistered(event_base, event_id) ==
    \/ <<event_base, ESP_EVENT_ANY_ID>> \in registered
    \/ <<event_base, event_id>> \in registered

CallNames(result) == {result.calls[k][1] : k \in 1..Len(result.calls)}

(* Everything event_handler can do for an event, over all SDK answers *)
HandlerOutcomes ==
    [ev \in Events |-> {event_handler(ev[1], ev[2], sdk) : sdk \in SdkAnswers}]

(* The default event loop task takes one posted event and runs the handlers *)
(* registered for it; an event nobody is registered for is dropped.         *)
EventLoopDispatch ==
    /\ Running
    /\ Returned("esp_event_loop_create_default", ESP_OK)
    /\ \E ev \in Events :
          \E result \in HandlerOutcomes[ev] :
              /\ lastEvent' = ev
              /\ IF IsRegistered(ev[1], ev[2])
                   THEN /\ handlerRan' = TRUE
                        /\ lastResult' = result
                        /\ abortSite' = IF result.abort THEN "wifi_prov_mgr_is_provisioned"
                                                        ELSE abortSite
                        /\ mgrInitialised' = IF "wifi_prov_mgr_deinit" \in CallNames(result)
                                               THEN FALSE ELSE mgrInitialised
                   ELSE /\ handlerRan' = FALSE
                        /\ lastResult' = NotHandled
                        /\ UNCHANGED <<abortSite, mgrInitialised>>
    /\ UNCHANGED <<mainVars, blinkVars, ep>>

----------------------------------------------------------------------------
(* custom_prov_data_handler *)

NullPtr == [null |-> TRUE, bytes |-> <<>>]
Ptr(bytes) == [null |-> FALSE, bytes |-> bytes]

(* char response[] = "SUCCESS"; *)
response == <<"S", "U", "C", "C", "E", "S", "S", NUL>>

strlen(s) == (CHOOSE k \in 1..Len(s) : s[k] = NUL /\ \A j \in 1..(k - 1) : s[j] # NUL) - 1

(* strdup: a fresh copy up to and including the NUL, or NULL when malloc fails *)
strdup(s, alloc_ok) == IF alloc_ok THEN Ptr(SubSeq(s, 1, strlen(s)) \o <<NUL>>) ELSE NullPtr

custom_prov_data_handler_short(session_id, inbuf, inlen, outbuf0, outlen0, alloc_ok) ==
    LET outbuf == strdup(response, alloc_ok)
    IN  [ret |-> IF outbuf.null THEN ESP_ERR_NO_MEM ELSE ESP_OK,
         outbuf |-> outbuf,
         outlen |-> IF outbuf.null THEN outlen0 ELSE strlen(response),
         inbuf |-> inbuf,
         inbufRead |-> ~inbuf.null]

(* Result: return code, *outbuf, *outlen, the input buffer afterwards and   *)
(* whether it was read (by the "%.*s" of the log line).                     *)
custom_prov_data_handler(session_id, inbuf, inlen, outbuf0, outlen0, alloc_ok) ==
    LET outbuf == strdup(response, alloc_ok)
    IN  [ret |-> IF outbuf.null THEN ESP_ERR_NO_MEM ELSE ESP_OK,
         outbuf |-> outbuf,
         outlen |-> IF outbuf.null THEN outlen0 ELSE strlen(response) + 1,
         inbuf |-> inbuf,
         inbufRead |-> ~inbuf.null]

InBufs == {NullPtr, Ptr(<<"h", "i">>)}
OutLens == {0, 42}
NotCalled == [called |-> FALSE]

(* Every invocation over the inputs of the model: the input buffer, the old *)
(* *outlen, whether malloc succeeds, and what the handler produced.         *)
EndpointCalls ==
    {[called |-> TRUE, inbuf0 |-> inbuf, outlen0 |-> outlen0, alloc_ok |-> alloc_ok,
      out |-> custom_prov_data_handler(session_id, inbuf, inlen, NullPtr, outlen0, alloc_ok)] :
        session_id \in 0..MaxSessionId, inbuf \in InBufs, inlen \in 0..MaxInLen,
        outlen0 \in OutLens, alloc_ok \in BOOLEAN}

(* protocomm invokes the handler registered for the "custom-data" endpoint *)
CustomProvDataHandler ==
    /\ Running
    /\ Returned("wifi_prov_mgr_endpoint_register", ESP_OK)
    /\ \E call \in EndpointCalls : ep' = call
    /\ UNCHANGED <<abortSite, mainVars, mgrInitialised, eventVars, blinkVars>>

----------------------------------------------------------------------------
Init ==
    /\ pc = "nvs_flash_init"
    /\ abortSite = ""
    /\ mainCalls = <<>>
    /\ registered = {}
    /\ mgrInitialised = FALSE
    /\ eth_mac = NoMac
    /\ service_name = <<>>
    /\ lastEvent = <<"", "">>
    /\ handlerRan = FALSE
    /\ lastResult = NotHandled
    /\ led_state = 0
    /\ i = 0
    /\ gpioTrace = <<>>
    /\ firstLevel = -1
    /\ setsSinceBeat = -1
    /\ beat = 0
    /\ ep = NotCalled

MainTask ==
    \/ NvsFlashInit
    \/ NvsFlashErase
    \/ NvsFlashInitRetry
    \/ EspNetifInit
    \/ EspEventLoopCreateDefault
    \/ EspEventHandlerRegister
    \/ EspWifiInit
    \/ WifiProvMgrInit
    \/ GetDeviceServiceName
    \/ WifiProvSchemeBleSetServiceUuid
    \/ WifiProvMgrEndpointCreate
    \/ WifiProvMgrDisableAutoStop
    \/ WifiProvMgrStartProvisioning
    \/ WifiProvMgrEndpointRegister
    \/ GpioSetup
    \/ HeartbeatLog
    \/ LedStep
    \/ ForExit

Next ==
    \/ MainTask
    \/ EventLoopDispatch
    \/ CustomProvDataHandler

Spec == Init /\ [][Next]_vars

(* The main task is never blocked for ever: every SDK call and vTaskDelay returns *)
FairSpec == Spec /\ WF_vars(MainTask)

----------------------------------------------------------------------------
(* Vocabulary of the properties *)

InitEspPcs == {"nvs_flash_init", "nvs_flash_erase", "nvs_flash_init_retry", "esp_netif_init",
               "esp_event_loop_create_default", "esp_event_handler_register", "esp_wifi_init"}
InitProvPcs == {"wifi_prov_mgr_init", "get_device_service_name",
                "wifi_prov_scheme_ble_set_service_uuid", "wifi_prov_mgr_endpoint_create",
                "wifi_prov_mgr_disable_auto_stop", "wifi_prov_mgr_start_provisioning",
                "wifi_prov_mgr_endpoint_register"}
HeartbeatPcs == {"gpio_reset_pin", "heartbeat", "for"}
InLoop == pc \in {"heartbeat", "for"}

InitEspFns == {"nvs_flash_init", "nvs_flash_erase", "esp_netif_init",
               "esp_event_loop_create_default", "esp_event_handler_register", "esp_wifi_init"}
InitProvFns == {"wifi_prov_mgr_init", "esp_wifi_get_mac", "wifi_prov_scheme_ble_set_service_uuid",
                "wifi_prov_mgr_endpoint_create", "wifi_prov_mgr_disable_auto_stop",
                "wifi_prov_mgr_start_provisioning", "wifi_prov_mgr_endpoint_register"}
PhaseRank(fn) == IF fn \in InitEspFns THEN 1 ELSE IF fn \in InitProvFns THEN 2 ELSE 3

Before(f, g) == Called(g) => (Called(f) /\ CallIndex(f) < CallIndex(g))

RegisteredBases == {r[1] : r \in registered}
DispatchedBases ==
    {b \in EventBases : \E id \in EventIds(b), sdk \in SdkAnswers :
                            event_handler(b, id, sdk).branch # ""}
FiveBases == {WIFI_PROV_EVENT, WIFI_EVENT, IP_EVENT, PROTOCOMM_TRANSPORT_BLE_EVENT,
              PROTOCOMM_SECURITY_SESSION_EVENT}
RegistrationDone == pc \notin {"nvs_flash_init", "nvs_flash_erase", "nvs_flash_init_retry",
                               "esp_netif_init", "esp_event_loop_create_default",
                               "esp_event_handler_register"}
EventSeen == lastEvent \in Events
OtherBaseIgnored ==
    /\ (EventSeen /\ handlerRan) => lastEvent[1] \in RegisteredBases
    /\ (EventSeen /\ lastEvent[1] \notin FiveBases) => (~handlerRan /\ lastResult = NotHandled)
    /\ \A b \in EventBases \ FiveBases : \A id \in EventIds(b), sdk \in SdkAnswers :
          event_handler(b, id, sdk) = NotHandled

(* C1 as stated: once init_esp has made its registrations, event_handler is *)
(* registered for exactly four event bases, it tests for exactly four, and  *)
(* an event of any other base is ignored.                                   *)
C1_FourBases ==
    /\ RegistrationDone => Cardinality(RegisteredBases) = 4
    /\ Cardinality(DispatchedBases) = 4
    /\ OtherBaseIgnored

(* C1 amended: the bases init_esp registers event_handler for and the bases *)
(* event_handler tests for are the same five (WIFI_PROV_EVENT, WIFI_EVENT,  *)
(* IP_EVENT, PROTOCOMM_TRANSPORT_BLE_EVENT, PROTOCOMM_SECURITY_SESSION_     *)
(* EVENT), and an event of any other base is ignored.                       *)
C1_FiveBases ==
    /\ RegistrationDone => (RegisteredBases = FiveBases /\ Cardinality(RegisteredBases) = 5)
    /\ DispatchedBases = FiveBases
    /\ Cardinality(DispatchedBases) = 5
    /\ OtherBaseIgnored

C1_Witness ==
    /\ RegistrationDone /\ Cardinality(registered) = 5
    /\ lastEvent[1] = ETH_EVENT /\ ~handlerRan

EventStep == eventVars' # eventVars

C2_State ==
    /\ \A j \in 1..Len(mainCalls) : \A k \in j..Len(mainCalls) :
          PhaseRank(mainCalls[j][1]) <= PhaseRank(mainCalls[k][1])
    /\ pc \in InitEspPcs => \A k \in 1..Len(mainCalls) : mainCalls[k][1] \in InitEspFns
    /\ pc \in InitProvPcs =>
          /\ Returned("esp_wifi_init", ESP_OK)
          /\ \A k \in 1..Len(mainCalls) : mainCalls[k][1] \in InitEspFns \cup InitProvFns
    /\ pc \in HeartbeatPcs =>
          /\ Returned("esp_wifi_init", ESP_OK)
          /\ Returned("wifi_prov_mgr_init", ESP_OK)
          /\ Returned("wifi_prov_mgr_start_provisioning", ESP_OK)
          /\ Called("wifi_prov_mgr_endpoint_register")
          /\ CallCount("wifi_prov_mgr_start_provisioning") = 1
    /\ (Called("wifi_prov_mgr_init") \/ Called("wifi_prov_mgr_start_provisioning") \/ mgrInitialised)
          => <<WIFI_PROV_EVENT, ESP_EVENT_ANY_ID>> \in registered
    /\ Before("wifi_prov_mgr_init", "wifi_prov_mgr_start_provisioning")
    /\ CallCount("wifi_prov_mgr_start_provisioning") <= 1
    /\ CallCount("wifi_prov_mgr_init") <= 1
    /\ (setsSinceBeat # -1 \/ gpioTrace # <<>> \/ beat # 0) => InLoop

C3_Safety ==
    /\ led_state \in {0, 1}
    /\ firstLevel \in {-1, 0}
    /\ (firstLevel = -1) <=> (gpioTrace = <<>>)
    /\ \A k \in 1..Len(gpioTrace) : gpioTrace[k][1] = 5 /\ gpioTrace[k][2] \in {0, 1}
    /\ \A k \in 1..(Len(gpioTrace) - 1) : gpioTrace[k + 1][2] = 1 - gpioTrace[k][2]
    /\ gpioTrace # <<>> => led_state = 1 - gpioTrace[Len(gpioTrace)][2]
    /\ setsSinceBeat <= 5
    /\ pc = "heartbeat" => setsSinceBeat \in {-1, 5}
    /\ pc = "for" => setsSinceBeat = i
    /\ gpioTrace # <<>> => InLoop
    /\ InLoop => (Returned("esp_wifi_init", ESP_OK) /\ Called("wifi_prov_mgr_endpoint_register"))

C4_EndpointOrder ==
    /\ Before("wifi_prov_mgr_endpoint_create", "wifi_prov_mgr_start_provisioning")
    /\ Before("wifi_prov_mgr_start_provisioning", "wifi_prov_mgr_endpoint_register")
    /\ Called("wifi_prov_mgr_start_provisioning") =>
          Returned("wifi_prov_mgr_endpoint_create", ESP_OK)
    /\ Called("wifi_prov_mgr_endpoint_register") =>
          /\ Returned("wifi_prov_mgr_endpoint_create", ESP_OK)
          /\ Returned("wifi_prov_mgr_start_provisioning", ESP_OK)
          /\ pc \in HeartbeatPcs
          /\ abortSite \in {"", "wifi_prov_mgr_is_provisioned"}
    /\ (Returned("wifi_prov_mgr_endpoint_create", ESP_FAIL)
          \/ Returned("wifi_prov_mgr_start_provisioning", ESP_FAIL)) =>
          /\ ~Running
          /\ ~Called("wifi_prov_mgr_endpoint_register")
          /\ ~ep.called
    /\ abortSite # "wifi_prov_mgr_endpoint_register"
    /\ CallCount("wifi_prov_mgr_endpoint_register") <= 1
    /\ ep.called => Returned("wifi_prov_mgr_endpoint_register", ESP_OK)

C4_Witness ==
    /\ Returned("wifi_prov_mgr_endpoint_register", ESP_FAIL)
    /\ pc = "for" /\ Running /\ beat = 1

ImperativeMgrCalls == {"wifi_prov_mgr_reset_sm_state_on_failure",
                       "wifi_prov_mgr_reset_sm_state_for_reprovision",
                       "wifi_prov_mgr_deinit", "wifi_prov_mgr_init",
                       "wifi_prov_mgr_start_provisioning", "wifi_prov_mgr_stop_provisioning"}
IsImperative(call) == call[1] \in ImperativeMgrCalls
ExpectedMgrCalls(ev) ==
    CASE ev = <<WIFI_PROV_EVENT, "WIFI_PROV_CRED_FAIL">> ->
            << <<"wifi_prov_mgr_reset_sm_state_on_failure", ESP_OK>> >>
      [] ev = <<WIFI_PROV_EVENT, "WIFI_PROV_CRED_SUCCESS">> ->
            << <<"wifi_prov_mgr_reset_sm_state_for_reprovision", ESP_OK>> >>
      [] ev = <<WIFI_PROV_EVENT, "WIFI_PROV_END">> -> << <<"wifi_prov_mgr_deinit", ESP_OK>> >>
      [] OTHER -> <<>>

(* C5: event_handler makes exactly one imperative manager call for each of  *)
(* WIFI_PROV_CRED_FAIL (reset_sm_state_on_failure), WIFI_PROV_CRED_SUCCESS  *)
(* (reset_sm_state_for_reprovision) and WIFI_PROV_END (deinit) and none for *)
(* any other event; deinit is called for WIFI_PROV_END only, never by the   *)
(* main task; start_provisioning is never called from event_handler.        *)
C5_ManagerCalls ==
    /\ (EventSeen /\ handlerRan) =>
          SelectSeq(lastResult.calls, IsImperative) = ExpectedMgrCalls(lastEvent)
    /\ "wifi_prov_mgr_deinit" \in CallNames(lastResult) =>
          lastEvent = <<WIFI_PROV_EVENT, "WIFI_PROV_END">>
    /\ "wifi_prov_mgr_start_provisioning" \notin CallNames(lastResult)
    /\ ~Called("wifi_prov_mgr_deinit")
    /\ (Returned("wifi_prov_mgr_init", ESP_OK) /\ ~mgrInitialised /\ EventSeen
          /\ lastEvent[2] \in {"WIFI_PROV_CRED_SUCCESS", "WIFI_PROV_CRED_FAIL"}) =>
          "wifi_prov_mgr_deinit" \notin CallNames(lastResult)

C5_Witness ==
    /\ handlerRan /\ lastEvent = <<WIFI_PROV_EVENT, "WIFI_PROV_CRED_SUCCESS">>
    /\ mgrInitialised
    /\ Returned("wifi_prov_mgr_start_provisioning", ESP_OK)

EndpointInputs == (0..MaxSessionId) \X InBufs \X (0..MaxInLen)
ReplyIndependentOfInput ==
    \A a \in EndpointInputs, b \in EndpointInputs, outlen0 \in OutLens, alloc_ok \in BOOLEAN :
        LET ra == custom_prov_data_handler(a[1], a[2], a[3], NullPtr, outlen0, alloc_ok)
            rb == custom_prov_data_handler(b[1], b[2], b[3], NullPtr, outlen0, alloc_ok)
        IN  ra.ret = rb.ret /\ ra.outbuf = rb.outbuf /\ ra.outlen = rb.outlen

(* C6: whatever session_id, inbuf and inlen are, custom_prov_data_handler   *)
(* returns ESP_OK with *outbuf a fresh "SUCCESS\0" and *outlen = 8 when the *)
(* allocation succeeds, and ESP_ERR_NO_MEM with *outbuf NULL and *outlen    *)
(* untouched when it fails; inbuf is unmodified and read only if non-NULL.  *)
C6_Reply ==
    /\ ReplyIndependentOfInput
    /\ ep.called =>
          /\ ep.alloc_ok =>
                /\ ep.out.ret = ESP_OK
                /\ ep.out.outbuf = Ptr(<<"S", "U", "C", "C", "E", "S", "S", NUL>>)
                /\ ep.out.outlen = 8
                /\ Len(ep.out.outbuf.bytes) = ep.out.outlen
          /\ ~ep.alloc_ok =>
                /\ ep.out.ret = ESP_ERR_NO_MEM
                /\ ep.out.outbuf = NullPtr
                /\ ep.out.outlen = ep.outlen0
          /\ ep.out.inbuf = ep.inbuf0
          /\ ep.out.inbufRead => ~ep.inbuf0.null

C6_Witness ==
    /\ ep.called /\ ep.alloc_ok /\ ep.inbuf0.null /\ ep.outlen0 = 42
    /\ ep.out.outlen = 8

StaStart == <<WIFI_EVENT, "WIFI_EVENT_STA_START">>
CallSet(result) == {result.calls[k] : k \in 1..Len(result.calls)}

(* C7: for WIFI_EVENT_STA_START event_handler calls esp_wifi_connect iff    *)
(* wifi_prov_mgr_is_provisioned returned ESP_OK and set provisioned; an     *)
(* error from is_provisioned aborts without a connect; an error from        *)
(* esp_wifi_connect does not abort; no other event leads to a connect.      *)
C7_Connect ==
    /\ (EventSeen /\ handlerRan /\ lastEvent = StaStart) =>
          /\ lastResult.calls[1][1] = "wifi_prov_mgr_is_provisioned"
          /\ "esp_wifi_connect" \in CallNames(lastResult)
                <=> (<<"wifi_prov_mgr_is_provisioned", ESP_OK>> \in CallSet(lastResult)
                     /\ lastResult.provisioned)
          /\ <<"wifi_prov_mgr_is_provisioned", ESP_FAIL>> \in CallSet(lastResult) =>
                /\ lastResult.abort
                /\ abortSite = "wifi_prov_mgr_is_provisioned"
                /\ "esp_wifi_connect" \notin CallNames(lastResult)
          /\ <<"wifi_prov_mgr_is_provisioned", ESP_OK>> \in CallSet(lastResult) =>
                ~lastResult.abort
    /\ <<"esp_wifi_connect", ESP_FAIL>> \in CallSet(lastResult) =>
          (~lastResult.abort /\ abortSite # "esp_wifi_connect")
    /\ (EventSeen /\ lastEvent # StaStart) => "esp_wifi_connect" \notin CallNames(lastResult)
    /\ ~Called("esp_wifi_connect")
    /\ lastResult.abort <=> abortSite = "wifi_prov_mgr_is_provisioned"

C7_Witness ==
    /\ handlerRan /\ lastEvent = StaStart
    /\ <<"esp_wifi_connect", ESP_FAIL>> \in CallSet(lastResult)
    /\ Running

(* C8: init_esp gets past the NVS step only after some nvs_flash_init       *)
(* returned ESP_OK; nvs_flash_erase is called only after the first          *)
(* nvs_flash_init returned NO_FREE_PAGES or NEW_VERSION_FOUND; and          *)
(* nvs_flash_init is called at most twice.                                  *)
C8_NvsReady ==
    /\ pc \notin {"nvs_flash_init", "nvs_flash_erase", "nvs_flash_init_retry"} =>
          Returned("nvs_flash_init", ESP_OK)
    /\ Called("nvs_flash_erase") =>
          mainCalls[1] \in {<<"nvs_flash_init", ESP_ERR_NVS_NO_FREE_PAGES>>,
                            <<"nvs_flash_init", ESP_ERR_NVS_NEW_VERSION_FOUND>>}
    /\ CallCount("nvs_flash_init") <= 2

ActingEvents == {<<WIFI_PROV_EVENT, "WIFI_PROV_CRED_FAIL">>,
                 <<WIFI_PROV_EVENT, "WIFI_PROV_CRED_SUCCESS">>,
                 <<WIFI_PROV_EVENT, "WIFI_PROV_END">>, StaStart}
PassiveHandler ==
    \A ev \in Events \ ActingEvents : \A sdk \in SdkAnswers :
        LET r == event_handler(ev[1], ev[2], sdk)
        IN  r.calls = <<>> /\ ~r.abort
C9_State ==
    /\ PassiveHandler
    /\ (EventSeen /\ lastEvent \notin ActingEvents) =>
          (lastResult.calls = <<>> /\ ~lastResult.abort)
(* C9: for every event other than WIFI_PROV_CRED_FAIL, WIFI_PROV_CRED_      *)
(* SUCCESS, WIFI_PROV_END and WIFI_EVENT_STA_START event_handler makes no   *)
(* SDK call and changes no program state; it never changes led_state.       *)
C9_Frame ==
    /\ []C9_State
    /\ [][(EventStep /\ lastEvent' \notin ActingEvents) =>
             UNCHANGED <<abortSite, mgrInitialised, mainVars, blinkVars, ep>>]_vars
    /\ [][EventStep => UNCHANGED <<led_state, mainVars, blinkVars, ep>>]_vars

C9_Witness ==
    /\ handlerRan /\ lastEvent = <<IP_EVENT, "IP_EVENT_STA_GOT_IP">>
    /\ lastResult.logs = <<"I">>
    /\ pc = "for" /\ led_state = 1

HexVal(c) == CHOOSE d \in 0..15 : HexDigits[d + 1] = c
IsHexUpper(c) == \E d \in 0..15 : HexDigits[d + 1] = c
Byte(hi, lo) == 16 * HexVal(hi) + HexVal(lo)
NameOnlyFromTail ==
    \A m1 \in MacAddrs, m2 \in MacAddrs :
        (m1[3] = m2[3] /\ m1[4] = m2[4] /\ m1[5] = m2[5]) =>
            get_device_service_name(m1, ServiceNameSize)
                = get_device_service_name(m2, ServiceNameSize)

(* C10: the name written into service_name[16] is "Kaivac_" + XX_XX_XX for  *)
(* bytes 3, 4, 5 of the MAC in two upper-case hex digits each, 15           *)
(* characters and the NUL, never truncated, and a function of those three   *)
(* bytes only.                                                              *)
C10_ServiceName ==
    /\ NameOnlyFromTail
    /\ service_name # <<>> =>
          /\ Len(service_name) = 16
          /\ Len(service_name) <= ServiceNameSize
          /\ service_name[16] = NUL
          /\ \A k \in 1..15 : service_name[k] # NUL
          /\ SubSeq(service_name, 1, 7) = <<"K", "a", "i", "v", "a", "c", "_">>
          /\ \A k \in {8, 9, 11, 12, 14, 15} : IsHexUpper(service_name[k])
          /\ service_name[10] = "_" /\ service_name[13] = "_"
          /\ Byte(service_name[8], service_name[9]) = eth_mac[3]
          /\ Byte(service_name[11], service_name[12]) = eth_mac[4]
          /\ Byte(service_name[14], service_name[15]) = eth_mac[5]

C10_Witness ==
    /\ eth_mac[0] = 255 /\ eth_mac[3] = 10 /\ eth_mac[4] = 0 /\ eth_mac[5] = 171
    /\ service_name = <<"K", "a", "i", "v", "a", "c", "_", "0", "A", "_", "0", "0", "_", "A", "B", NUL>>

====
